---- MODULE Spec2Model ----
(***************************************************************************)
(* Model of the multi-algorithm streaming hash engine of hash-tool:        *)
(* FileHasher.calculate_hashes, FileHasher.calculate_combined_hash, the    *)
(* digest registry of config.py, the validators of file_handler.py and the *)
(* page of layout.py with its session history.                             *)
(*                                                                         *)
(* Python values are represented as follows.                               *)
(*   bytes          a sequence of byte values                              *)
(*   str (hex)      a sequence of one-character strings                    *)
(*   str (name)     a TLA+ string; its code points are in CodePoints       *)
(*   dict           a sequence of <<key, value>> pairs with distinct keys, *)
(*                  in insertion order                                     *)
(*   None           the value None defined below                           *)
(***************************************************************************)
EXTENDS Integers, Sequences, FiniteSets, TLC

(***************************************************************************)
(* Bounds of the model.                                                    *)
(***************************************************************************)
\* longest payload handed to calculate_hashes
MaxLen == 3
\* largest chunk size a FileHasher is constructed with
MaxChunk == 3
\* largest number of entries of the algorithms dict of calculate_hashes
MaxAlgos == 2
\* number of registry names the algorithms dict is drawn from
PoolSize == 2
\* largest number of entries of the digest map of calculate_combined_hash
MaxEntries == 3
\* number of registry names the keys of the digest map are drawn from
KeyPoolSize == 3
\* the small value of config.MAX_FILE_SIZE_BYTES the page is run with
SmallFileLimit == 2
\* largest number of files of an upload handed to process_uploaded_files
MaxUpload == 2
\* generate is clicked on an empty history, or when the history does not
\* grow beyond this length
MaxHistory == 3

(***************************************************************************)
(* config.py                                                               *)
(***************************************************************************)
MAX_FILE_SIZE_BYTES == 1073741824

MAX_FILES_ALLOWED == 5

MIN_FILES_REQUIRED == 1

CHUNK_SIZE == 8192

MIN_ALGORITHMS == 1

MAX_ALGORITHMS == 3

\* the keys of config.HASH_ALGORITHMS, in the order the dict literal lists them
HASH_ALGORITHMS ==
    << "MD5", "SHA-1", "SHA-224", "SHA-256", "SHA-384", "SHA-512",
       "SHA3-256", "SHA3-512", "BLAKE2b", "BLAKE2s" >>

\* `name in config.HASH_ALGORITHMS`
InRegistry(name) == \E k \in 1..Len(HASH_ALGORITHMS) : HASH_ALGORITHMS[k] = name

\* identifiers that are not keys of config.HASH_ALGORITHMS
UnregisteredNames == { "CRC32", "sha256" }

\* the Unicode code points of the names, which Python's str comparison uses
CodePoints ==
    [ n \in { HASH_ALGORITHMS[k] : k \in 1..Len(HASH_ALGORITHMS) } \cup UnregisteredNames |->
        CASE n = "MD5"      -> << 77, 68, 53 >>
          [] n = "SHA-1"    -> << 83, 72, 65, 45, 49 >>
          [] n = "SHA-224"  -> << 83, 72, 65, 45, 50, 50, 52 >>
          [] n = "SHA-256"  -> << 83, 72, 65, 45, 50, 53, 54 >>
          [] n = "SHA-384"  -> << 83, 72, 65, 45, 51, 56, 52 >>
          [] n = "SHA-512"  -> << 83, 72, 65, 45, 53, 49, 50 >>
          [] n = "SHA3-256" -> << 83, 72, 65, 51, 45, 50, 53, 54 >>
          [] n = "SHA3-512" -> << 83, 72, 65, 51, 45, 53, 49, 50 >>
          [] n = "BLAKE2b"  -> << 66, 76, 65, 75, 69, 50, 98 >>
          [] n = "BLAKE2s"  -> << 66, 76, 65, 75, 69, 50, 115 >>
          [] n = "CRC32"    -> << 67, 82, 67, 51, 50 >>
          [] n = "sha256"   -> << 115, 104, 97, 50, 53, 54 >> ]

(***************************************************************************)
(* Python built-ins used by hasher.py                                      *)
(***************************************************************************)
None == << "None" >>

\* the outcome of a call that raised KeyError
KeyError == << "KeyError" >>

Min(a, b) == IF a < b THEN a ELSE b

\* a slice that is empty unless all n bytes are there
SliceWhole(data, i, n) == IF i + n <= Len(data) THEN SubSeq(data, i + 1, i + n) ELSE << >>

\* data[i:i + n] for 0 <= i and 1 <= n
Slice(data, i, n) == SubSeq(data, i + 1, Min(i + n, Len(data)))

\* a < b for two sequences of code points: Python's ordering of str
RECURSIVE SeqLess(_, _)
SeqLess(a, b) ==
    IF b = << >> THEN FALSE
    ELSE IF a = << >> THEN TRUE
    ELSE IF Head(a) # Head(b) THEN Head(a) < Head(b)
    ELSE SeqLess(Tail(a), Tail(b))

StrLess(a, b) == SeqLess(CodePoints[a], CodePoints[b])

\* the insertion with the comparison the other way round
RECURSIVE InsertDescending(_, _)
InsertDescending(x, s) ==
    IF s = << >> THEN << x >>
    ELSE IF StrLess(Head(s), x) THEN << x >> \o s
    ELSE << Head(s) >> \o InsertDescending(x, Tail(s))

\* the list with x put before the first element of the sorted list s that is
\* greater than x
RECURSIVE InsertSorted(_, _)
InsertSorted(x, s) ==
    IF s = << >> THEN << x >>
    ELSE IF StrLess(x, Head(s)) THEN << x >> \o s
    ELSE << Head(s) >> \o InsertSorted(x, Tail(s))

\* the keys left in insertion order
Unsorted(keys) == keys

\* sorted(keys) for a list of str
RECURSIVE Sorted(_)
Sorted(keys) ==
    IF keys = << >> THEN << >>
    ELSE InsertSorted(keys[Len(keys)], Sorted(SubSeq(keys, 1, Len(keys) - 1)))

\* dict: d.keys(), d[k], `k in d`, d[k] = v
Keys(d) == [ k \in 1..Len(d) |-> d[k][1] ]

HasKey(d, key) == \E k \in 1..Len(d) : d[k][1] = key

Lookup(d, key) == d[CHOOSE k \in 1..Len(d) : d[k][1] = key][2]

\* a dict rebuilt with the one entry
DictReset(d, key, value) == << << key, value >> >>

DictSet(d, key, value) ==
    IF HasKey(d, key)
    THEN [ k \in 1..Len(d) |-> IF d[k][1] = key THEN << key, value >> ELSE d[k] ]
    ELSE Append(d, << key, value >>)

(***************************************************************************)
(* hashlib digest contexts.  A context is the algorithm it was constructed *)
(* for and the bytes fed to it so far; update appends to them, hexdigest   *)
(* folds them into a value below the prime 65521, written as four          *)
(* lowercase hex characters.                                               *)
(***************************************************************************)
HexChars ==
    << "0", "1", "2", "3", "4", "5", "6", "7",
       "8", "9", "a", "b", "c", "d", "e", "f" >>

\* str.encode('utf-8') of a hex string
Utf8(ch) ==
    LET d == CHOOSE k \in 1..16 : HexChars[k] = ch
    IN  IF d <= 10 THEN 48 + (d - 1) ELSE 97 + (d - 11)

Encode(s) == [ k \in 1..Len(s) |-> Utf8(s[k]) ]

ToHex(v) ==
    << HexChars[((v \div 4096) % 16) + 1], HexChars[((v \div 256) % 16) + 1],
       HexChars[((v \div 16) % 16) + 1], HexChars[(v % 16) + 1] >>

\* the initial value of the digest state of an algorithm
Seed(name) == 4099 * (CHOOSE k \in 1..Len(HASH_ALGORITHMS) : HASH_ALGORITHMS[k] = name)

RECURSIVE Compress(_, _)
Compress(state, msg) ==
    IF msg = << >> THEN state
    ELSE Compress((state * 257 + Head(msg) + 1) % 65521, Tail(msg))

\* HASH_ALGORITHMS[name]()
NewContext(name) == [ algo |-> name, msg |-> << >> ]

\* h.update(data)
Update(h, data) == [ h EXCEPT !.msg = @ \o data ]

\* h.hexdigest()
HexDigest(h) == ToHex(Compress(Seed(h.algo), h.msg))

(***************************************************************************)
(* State.                                                                  *)
(***************************************************************************)
VARIABLES
    \* FileHasher
    chunk_size,        \* self.chunk_size
    \* the activation of calculate_hashes
    pc,                \* its position: "idle", "for", "update", "finalize", "done"
    file_data,         \* argument file_data
    algorithms,        \* argument algorithms: the names, in insertion order
    has_callback,      \* whether progress_callback is supplied
    total_size,
    hash_objects,      \* dict name -> digest context
    i,                 \* the next value of range(0, total_size, self.chunk_size)
    chunk,
    j,                 \* position of the inner loop in hash_objects.values()
    bytes_processed,
    results,
    progress_calls,    \* the invocations of progress_callback: <<processed, total>>
    prev,              \* the first completed call of calculate_hashes of the batch
    \* the activation of calculate_combined_hash
    cpc,               \* its position: "idle", "done"
    individual_hashes, \* argument individual_hashes
    algorithm,         \* argument algorithm
    combined_hash,     \* the outcome of the call, when cpc = "done"
    prev_combined,     \* the first call of calculate_combined_hash, at the second
    \* config
    max_file_size,     \* config.MAX_FILE_SIZE_BYTES as configured
    \* the calls of the validators
    size,              \* argument of validate_file_size
    size_result,       \* what it returned
    count,             \* argument of validate_file_count
    count_result,      \* what it returned
    uploaded_files,    \* argument of process_uploaded_files
    processed,         \* what it returned: << valid_files, invalid_files >>
    \* the session of the page
    history,           \* st.session_state['hash_history']
    run,               \* where the script run of the page is
    uploader,          \* the files in the file uploader widget
    checked,           \* the algorithm checkboxes that are ticked
    clicked,           \* the button pressed for the last script run
    valid_files,       \* process_files: the files of the batch
    selected_algorithms, \* process_files: the algorithms of the batch
    file_index,        \* process_files: position of the for loop
    file_hashes,       \* process_files: hashes, the digests of the file at file_index
    before,            \* the history when the last script run started
    \* the algorithm selector on its own
    ticked,            \* the checkboxes ticked
    selection,         \* what AlgorithmSelector.render returned
    digest_map,        \* what calculate_hashes returned for it
    export_lines,      \* the algorithm names in the lines of the text export
    \* the calls with one algorithm name
    algorithm_name,    \* argument of calculate_single_hash and verify_hash
    single_file_data,  \* argument file_data of both
    expected_hash,     \* argument of verify_hash
    single_result,     \* outcome of calculate_single_hash
    verify_result      \* outcome of verify_hash

hashVars ==
    << chunk_size, pc, file_data, algorithms, has_callback, total_size,
       hash_objects, i, chunk, j, bytes_processed, results, progress_calls, prev >>

combineVars == << cpc, individual_hashes, algorithm, combined_hash, prev_combined >>

validateVars ==
    << size, size_result, count, count_result, uploaded_files, processed >>

sessionVars ==
    << history, run, uploader, checked, clicked, valid_files,
       selected_algorithms, file_index, file_hashes, before >>

selectVars == << ticked, selection, digest_map, export_lines >>

singleVars ==
    << algorithm_name, single_file_data, expected_hash, single_result, verify_result >>

appVars == << max_file_size, validateVars, sessionVars, selectVars, singleVars >>

vars == << hashVars, combineVars, appVars >>

(***************************************************************************)
(* Inputs.                                                                 *)
(***************************************************************************)
ByteValues == { 0, 255 }

Payloads == UNION { [ 1..n -> ByteValues ] : n \in 0..MaxLen }

ChunkSizes == 1..MaxChunk

\* the payloads of the other files of a batch
OtherPayloads == { p \in Payloads : Len(p) = 1 }

\* n names of the registry, every third one so that the families are mixed
Pool(n) ==
    { HASH_ALGORITHMS[3 * k - 2] : k \in { m \in 1..n : 3 * m - 2 <= Len(HASH_ALGORITHMS) } }

\* the lists of at most n distinct names
KeyLists(names, n) ==
    UNION { { s \in [ 1..m -> names ] : \A a, b \in 1..m : a # b => s[a] # s[b] } :
            m \in 0..n }

AlgorithmDicts == KeyLists(Pool(PoolSize), MaxAlgos)

DigestValues == { ToHex(v) : v \in ByteValues }

\* the dicts from names to digest strings with at most MaxEntries entries
DigestMaps ==
    UNION { { [ k \in 1..Len(ks) |-> << ks[k], vs[k] >> ] : vs \in [ 1..Len(ks) -> DigestValues ] } :
            ks \in KeyLists(Pool(KeyPoolSize), MaxEntries) }

CombinerNames == { HASH_ALGORITHMS[k] : k \in 1..Len(HASH_ALGORITHMS) } \cup UnregisteredNames

NoCall ==
    [ called |-> FALSE, file_data |-> << >>, chunk_size |-> 0,
      results |-> << >>, gap |-> "none" ]

NoCombine ==
    [ called |-> FALSE, individual_hashes |-> << >>, algorithm |-> "SHA-256",
      combined_hash |-> None ]

\* the value of a result variable before the call returned
Unset == << "unset" >>

\* no validator is called
ValidateIdle ==
    /\ size = 0
    /\ size_result = Unset
    /\ count = 0
    /\ count_result = Unset
    /\ uploaded_files = << >>
    /\ processed = Unset

\* the page is not run
SessionIdle ==
    /\ history = << >>
    /\ run = "idle"
    /\ uploader = << >>
    /\ checked = { }
    /\ clicked = "none"
    /\ valid_files = << >>
    /\ selected_algorithms = << >>
    /\ file_index = 0
    /\ file_hashes = << >>
    /\ before = << >>

\* the algorithm selector is not rendered
SelectIdle ==
    /\ ticked = { }
    /\ selection = Unset
    /\ digest_map = Unset
    /\ export_lines = Unset

\* neither calculate_single_hash nor verify_hash is called
SingleIdle ==
    /\ algorithm_name = "SHA-256"
    /\ single_file_data = << >>
    /\ expected_hash = << >>
    /\ single_result = Unset
    /\ verify_result = Unset

AppIdle ==
    /\ max_file_size = MAX_FILE_SIZE_BYTES
    /\ ValidateIdle
    /\ SessionIdle
    /\ SelectIdle
    /\ SingleIdle

\* no call of calculate_combined_hash is made
CombineIdle ==
    /\ cpc = "idle"
    /\ individual_hashes = << >>
    /\ algorithm = "SHA-256"
    /\ combined_hash = None
    /\ prev_combined = NoCombine

\* no call of calculate_hashes is made
HashIdle ==
    /\ chunk_size = 1
    /\ pc = "idle"
    /\ file_data = << >>
    /\ algorithms = << >>
    /\ has_callback = FALSE
    /\ total_size = 0
    /\ hash_objects = << >>
    /\ i = 0
    /\ chunk = << >>
    /\ j = 0
    /\ bytes_processed = 0
    /\ results = << >>
    /\ progress_calls = << >>
    /\ prev = NoCall

(***************************************************************************)
(* FileHasher.__init__ and FileHasher.calculate_hashes                     *)
(***************************************************************************)
InitHash ==
    /\ chunk_size \in ChunkSizes
    /\ pc = "idle"
    /\ file_data = << >>
    /\ algorithms \in AlgorithmDicts
    /\ has_callback \in BOOLEAN
    /\ total_size = 0
    /\ hash_objects = << >>
    /\ i = 0
    /\ chunk = << >>
    /\ j = 0
    /\ bytes_processed = 0
    /\ results = << >>
    /\ progress_calls = << >>
    /\ prev = NoCall
    /\ CombineIdle
    /\ AppIdle

\* hasher = FileHasher(c), replacing the instance that made the earlier calls
Construct(c) ==
    /\ pc = "done"
    /\ c # chunk_size
    /\ chunk_size' = c
    /\ prev' = IF prev.called THEN [ prev EXCEPT !.gap = "rebuilt" ] ELSE prev
    /\ UNCHANGED << pc, file_data, algorithms, has_callback, total_size,
                    hash_objects, i, chunk, j, bytes_processed, results,
                    progress_calls >>
    /\ UNCHANGED << combineVars, appVars >>

\* the entry with the contexts of the earlier call kept for the same names
EnterStale(data) ==
    /\ file_data' = data
    /\ results' = << >>
    /\ total_size' = Len(data)
    /\ hash_objects' = IF Len(hash_objects) = Len(algorithms)
                       THEN hash_objects
                       ELSE [ k \in 1..Len(algorithms) |->
                                << algorithms[k], NewContext(algorithms[k]) >> ]
    /\ bytes_processed' = 0
    /\ i' = 0
    /\ chunk' = << >>
    /\ j' = 0
    /\ progress_calls' = << >>
    /\ pc' = "for"
    /\ UNCHANGED << chunk_size, algorithms, has_callback >>
    /\ UNCHANGED << combineVars, appVars >>

\* entry of calculate_hashes, up to the head of the chunk loop
Enter(data) ==
    /\ file_data' = data
    /\ results' = << >>
    /\ total_size' = Len(data)
    /\ hash_objects' = [ k \in 1..Len(algorithms) |->
                           << algorithms[k], NewContext(algorithms[k]) >> ]
    /\ bytes_processed' = 0
    /\ i' = 0
    /\ chunk' = << >>
    /\ j' = 0
    /\ progress_calls' = << >>
    /\ pc' = "for"
    /\ UNCHANGED << chunk_size, algorithms, has_callback >>
    /\ UNCHANGED << combineVars, appVars >>

\* the first call of the hasher
Call(data) ==
    /\ pc = "idle"
    /\ Enter(data)
    /\ UNCHANGED prev

\* the completed call, as the later calls of the batch remember the first one
ThisCall ==
    [ called |-> TRUE, file_data |-> file_data, chunk_size |-> chunk_size,
      results |-> results, gap |-> "none" ]

\* the payload of the first call of the batch
FirstPayload == IF prev.called THEN prev.file_data ELSE file_data

\* the next file of the batch: process_files calls calculate_hashes again with
\* the same algorithms and its callback
Rehash(data) ==
    /\ pc = "done"
    /\ has_callback
    /\ prev' = IF ~prev.called THEN ThisCall
               ELSE IF prev.gap = "none" /\ file_data # prev.file_data
                    THEN [ prev EXCEPT !.gap = "other" ]
                    ELSE prev
    /\ Enter(data)

\* for i in range(0, total_size, self.chunk_size): chunk = file_data[i:i + self.chunk_size]
NextChunk ==
    /\ pc = "for"
    /\ i < total_size
    /\ chunk' = Slice(file_data, i, chunk_size)
    /\ j' = 1
    /\ pc' = "update"
    /\ UNCHANGED << chunk_size, file_data, algorithms, has_callback, total_size,
                    hash_objects, i, bytes_processed, results, progress_calls, prev >>
    /\ UNCHANGED << combineVars, appVars >>

\* the inner loop left after its first context
UpdateFirstOnly ==
    /\ pc = "update"
    /\ j <= Len(hash_objects)
    /\ hash_objects' = IF j = 1
                       THEN [ hash_objects EXCEPT ![j] = << @[1], Update(@[2], chunk) >> ]
                       ELSE hash_objects
    /\ j' = j + 1
    /\ UNCHANGED << chunk_size, pc, file_data, algorithms, has_callback, total_size,
                    i, chunk, bytes_processed, results, progress_calls, prev >>
    /\ UNCHANGED << combineVars, appVars >>

\* for hash_obj in hash_objects.values(): hash_obj.update(chunk)
UpdateHash ==
    /\ pc = "update"
    /\ j <= Len(hash_objects)
    /\ hash_objects' = [ hash_objects EXCEPT ![j] = << @[1], Update(@[2], chunk) >> ]
    /\ j' = j + 1
    /\ UNCHANGED << chunk_size, pc, file_data, algorithms, has_callback, total_size,
                    i, chunk, bytes_processed, results, progress_calls, prev >>
    /\ UNCHANGED << combineVars, appVars >>

\* the progress counted in whole chunk sizes
ReportProgressChunkSize ==
    /\ pc = "update"
    /\ j > Len(hash_objects)
    /\ bytes_processed' = bytes_processed + chunk_size
    /\ progress_calls' = IF has_callback
                         THEN Append(progress_calls, << bytes_processed', total_size >>)
                         ELSE progress_calls
    /\ i' = i + chunk_size
    /\ pc' = "for"
    /\ UNCHANGED << chunk_size, file_data, algorithms, has_callback, total_size,
                    hash_objects, chunk, j, results, prev >>
    /\ UNCHANGED << combineVars, appVars >>

\* bytes_processed += len(chunk); the callback; the loop advances
ReportProgress ==
    /\ pc = "update"
    /\ j > Len(hash_objects)
    /\ bytes_processed' = bytes_processed + Len(chunk)
    /\ progress_calls' = IF has_callback
                         THEN Append(progress_calls, << bytes_processed', total_size >>)
                         ELSE progress_calls
    /\ i' = i + chunk_size
    /\ pc' = "for"
    /\ UNCHANGED << chunk_size, file_data, algorithms, has_callback, total_size,
                    hash_objects, chunk, j, results, prev >>
    /\ UNCHANGED << combineVars, appVars >>

\* a last invocation of the callback added after the loop
EndLoopReportsCompletion ==
    /\ pc = "for"
    /\ i >= total_size
    /\ pc' = "finalize"
    /\ progress_calls' = IF has_callback
                         THEN Append(progress_calls, << total_size, total_size >>)
                         ELSE progress_calls
    /\ UNCHANGED << chunk_size, file_data, algorithms, has_callback, total_size,
                    hash_objects, i, chunk, j, bytes_processed, results, prev >>
    /\ UNCHANGED << combineVars, appVars >>

\* the range is exhausted
EndLoop ==
    /\ pc = "for"
    /\ i >= total_size
    /\ pc' = "finalize"
    /\ UNCHANGED << chunk_size, file_data, algorithms, has_callback, total_size,
                    hash_objects, i, chunk, j, bytes_processed, results,
                    progress_calls, prev >>
    /\ UNCHANGED << combineVars, appVars >>

\* for name, hash_obj in hash_objects.items(): results[name] = hash_obj.hexdigest()
RECURSIVE CollectDigests(_, _)
CollectDigests(objs, res) ==
    IF objs = << >> THEN res
    ELSE CollectDigests(Tail(objs), DictSet(res, Head(objs)[1], HexDigest(Head(objs)[2])))

\* a return of the empty dict for an empty payload
FinalizeNonEmpty ==
    /\ pc = "finalize"
    /\ results' = IF total_size = 0 THEN results ELSE CollectDigests(hash_objects, results)
    /\ pc' = "done"
    /\ UNCHANGED << chunk_size, file_data, algorithms, has_callback, total_size,
                    hash_objects, i, chunk, j, bytes_processed, progress_calls, prev >>
    /\ UNCHANGED << combineVars, appVars >>

\* the final loop and return results
Finalize ==
    /\ pc = "finalize"
    /\ results' = CollectDigests(hash_objects, results)
    /\ pc' = "done"
    /\ UNCHANGED << chunk_size, file_data, algorithms, has_callback, total_size,
                    hash_objects, i, chunk, j, bytes_processed, progress_calls, prev >>
    /\ UNCHANGED << combineVars, appVars >>

NextHash ==
    \/ \E data \in Payloads : Call(data)
    \/ NextChunk
    \/ UpdateHash
    \/ ReportProgress
    \/ EndLoop
    \/ Finalize
    \/ \E data \in OtherPayloads \cup { FirstPayload } : Rehash(data)
    \/ \E c \in ChunkSizes : Construct(c)

SpecHash == InitHash /\ [][NextHash]_vars

(***************************************************************************)
(* FileHasher.calculate_combined_hash                                      *)
(***************************************************************************)
\* ''.join(strs)
RECURSIVE Join(_)
Join(strs) == IF strs = << >> THEN << >> ELSE Head(strs) \o Join(Tail(strs))

\* the guard `len(individual_hashes) < 1`
CombinedHashOffByOne(hashes, algo) ==
    IF Len(hashes) < 1 THEN None
    ELSE
        LET sorted_algos == Sorted(Keys(hashes))
            concatenated == Join([ k \in 1..Len(sorted_algos) |-> Lookup(hashes, sorted_algos[k]) ])
            fallback     == IF ~InRegistry(algo) THEN "SHA-256" ELSE algo
        IN  IF ~InRegistry(fallback) THEN KeyError
            ELSE HexDigest(Update(NewContext(fallback), Encode(concatenated)))

\* the lookup of the algorithm without the fallback
CombinedHashNoFallback(hashes, algo) ==
    IF Len(hashes) <= 1 THEN None
    ELSE
        LET sorted_algos == Sorted(Keys(hashes))
            concatenated == Join([ k \in 1..Len(sorted_algos) |-> Lookup(hashes, sorted_algos[k]) ])
        IN  IF ~InRegistry(algo) THEN KeyError
            ELSE HexDigest(Update(NewContext(algo), Encode(concatenated)))

\* the value calculate_combined_hash returns, or KeyError when it raises
CombinedHash(hashes, algo) ==
    IF Len(hashes) <= 1 THEN None
    ELSE
        LET sorted_algos == Sorted(Keys(hashes))
            concatenated == Join([ k \in 1..Len(sorted_algos) |-> Lookup(hashes, sorted_algos[k]) ])
            fallback     == IF ~InRegistry(algo) THEN "SHA-256" ELSE algo
        IN  IF ~InRegistry(fallback) THEN KeyError
            ELSE HexDigest(Update(NewContext(fallback), Encode(concatenated)))

InitCombine ==
    /\ HashIdle
    /\ AppIdle
    /\ cpc = "idle"
    /\ individual_hashes \in DigestMaps
    /\ algorithm \in CombinerNames
    /\ combined_hash = None
    /\ prev_combined = NoCombine

CalculateCombinedHash ==
    /\ cpc = "idle"
    /\ combined_hash' = CombinedHash(individual_hashes, algorithm)
    /\ cpc' = "done"
    /\ UNCHANGED << individual_hashes, algorithm, prev_combined >>
    /\ UNCHANGED << hashVars, appVars >>

\* the completed call, as the second call remembers it
ThisCombine ==
    [ called |-> TRUE, individual_hashes |-> individual_hashes,
      algorithm |-> algorithm, combined_hash |-> combined_hash ]

\* the lists of the elements of a set of names, each one once
RECURSIVE ListsOf(_)
ListsOf(names) ==
    IF names = { } THEN { << >> }
    ELSE UNION { { << x >> \o rest : rest \in ListsOf(names \ { x }) } : x \in names }

\* the orders the keys of a dict can be inserted in
Orders(d) == ListsOf({ d[k][1] : k \in 1..Len(d) })

\* the caller builds the same digest map with its entries inserted in another
\* order and calls a second time
Reinsert ==
    /\ cpc = "done"
    /\ ~prev_combined.called
    /\ prev_combined' = ThisCombine
    /\ \E order \in Orders(individual_hashes) :
          /\ order # Keys(individual_hashes)
          /\ individual_hashes' =
                [ k \in 1..Len(order) |-> << order[k], Lookup(individual_hashes, order[k]) >> ]
    /\ combined_hash' = None
    /\ cpc' = "idle"
    /\ UNCHANGED algorithm
    /\ UNCHANGED << hashVars, appVars >>

\* the caller passes another combiner algorithm for the same digest map and
\* calls a second time
Recombine(algo) ==
    /\ cpc = "done"
    /\ ~prev_combined.called
    /\ algo # algorithm
    /\ prev_combined' = ThisCombine
    /\ algorithm' = algo
    /\ combined_hash' = None
    /\ cpc' = "idle"
    /\ UNCHANGED individual_hashes
    /\ UNCHANGED << hashVars, appVars >>

NextCombine ==
    \/ CalculateCombinedHash
    \/ Reinsert
    \/ \E algo \in CombinerNames : Recombine(algo)

SpecCombine == InitCombine /\ [][NextCombine]_vars

(***************************************************************************)
(* file_handler.py: FileValidator and FileProcessor                        *)
(***************************************************************************)
\* a file of n bytes
Data(n) == [ k \in 1..n |-> IF k % 2 = 1 THEN 0 ELSE 255 ]

EmptyFile == [ name |-> "empty.bin", data |-> Data(0) ]

SmallFile == [ name |-> "small.bin", data |-> Data(1) ]

FullFile == [ name |-> "full.bin", data |-> Data(SmallFileLimit) ]

BigFile == [ name |-> "big.bin", data |-> Data(SmallFileLimit + 1) ]

\* the uploaded files: an empty one, two within the small limit and one over it
FilePool == { EmptyFile, SmallFile, FullFile, BigFile }

Uploads == UNION { [ 1..n -> FilePool ] : n \in 0..MaxUpload }

ConfiguredLimits == { -1, 0, 1, SmallFileLimit, MAX_FILE_SIZE_BYTES }

\* the sizes around the limits
Sizes ==
    { 0, 1, 2, SmallFileLimit, SmallFileLimit + 1,
      MAX_FILE_SIZE_BYTES - 1, MAX_FILE_SIZE_BYTES, MAX_FILE_SIZE_BYTES + 1 }

Counts == 0..(MAX_FILES_ALLOWED + 2)

\* the comparison `size >= config.MAX_FILE_SIZE_BYTES`
ValidateFileSizeStrict(sz) ==
    IF sz >= max_file_size THEN << FALSE, "File size exceeds limit" >>
    ELSE IF sz = 0 THEN << FALSE, "File is empty" >>
    ELSE << TRUE, "" >>

\* FileValidator.validate_file_size: (is_valid, error_message)
ValidateFileSize(sz) ==
    IF sz > max_file_size THEN << FALSE, "File size exceeds limit" >>
    ELSE IF sz = 0 THEN << FALSE, "File is empty" >>
    ELSE << TRUE, "" >>

\* the comparison `count >= config.MAX_FILES_ALLOWED`
ValidateFileCountStrict(n) ==
    IF n < MIN_FILES_REQUIRED THEN << FALSE, "Please upload at least the minimum of files" >>
    ELSE IF n >= MAX_FILES_ALLOWED THEN << FALSE, "Maximum of files allowed" >>
    ELSE << TRUE, "" >>

\* FileValidator.validate_file_count: (is_valid, error_message)
ValidateFileCount(n) ==
    IF n < MIN_FILES_REQUIRED THEN << FALSE, "Please upload at least the minimum of files" >>
    ELSE IF n > MAX_FILES_ALLOWED THEN << FALSE, "Maximum of files allowed" >>
    ELSE << TRUE, "" >>

\* the verdict of validate_file_size not looked at
ValidateFileAccepting(name, sz, data) ==
    [ name |-> name, size |-> sz, data |-> data,
      is_valid |-> TRUE, error_message |-> "" ]

\* FileValidator.validate_file: the FileInfo
ValidateFile(name, sz, data) ==
    LET verdict == ValidateFileSize(sz)
    IN  [ name |-> name, size |-> sz, data |-> data,
          is_valid |-> verdict[1], error_message |-> verdict[2] ]

\* the loop of process_uploaded_files over the files that are left
RECURSIVE ProcessLoop(_, _, _)
ProcessLoop(files, valid, invalid) ==
    IF files = << >> THEN << valid, invalid >>
    ELSE
        LET file_data_ == Head(files).data
            file_info  == ValidateFile(Head(files).name, Len(file_data_), file_data_)
        IN  IF file_info.is_valid
            THEN ProcessLoop(Tail(files), Append(valid, file_info), invalid)
            ELSE ProcessLoop(Tail(files), valid, Append(invalid, file_info))

\* the invalid files dropped instead of listed
ProcessUploadedFilesDropInvalid(files) ==
    << ProcessLoop(files, << >>, << >>)[1], << >> >>

\* FileProcessor.process_uploaded_files: (valid_files, invalid_files)
ProcessUploadedFiles(files) == ProcessLoop(files, << >>, << >>)

InitValidate ==
    /\ HashIdle
    /\ CombineIdle
    /\ max_file_size \in ConfiguredLimits
    /\ size \in Sizes
    /\ size_result = Unset
    /\ count \in Counts
    /\ count_result = Unset
    /\ uploaded_files \in Uploads
    /\ processed = Unset
    /\ SessionIdle
    /\ SelectIdle
    /\ SingleIdle

CallValidateFileSize ==
    /\ size_result = Unset
    /\ size_result' = ValidateFileSize(size)
    /\ UNCHANGED << max_file_size, size, count, count_result, uploaded_files, processed >>
    /\ UNCHANGED << hashVars, combineVars, sessionVars, selectVars, singleVars >>

CallValidateFileCount ==
    /\ count_result = Unset
    /\ count_result' = ValidateFileCount(count)
    /\ UNCHANGED << max_file_size, size, size_result, count, uploaded_files, processed >>
    /\ UNCHANGED << hashVars, combineVars, sessionVars, selectVars, singleVars >>

CallProcessUploadedFiles ==
    /\ processed = Unset
    /\ processed' = ProcessUploadedFiles(uploaded_files)
    /\ UNCHANGED << max_file_size, size, size_result, count, count_result, uploaded_files >>
    /\ UNCHANGED << hashVars, combineVars, sessionVars, selectVars, singleVars >>

NextValidate ==
    \/ CallValidateFileSize
    \/ CallValidateFileCount
    \/ CallProcessUploadedFiles

SpecValidate == InitValidate /\ [][NextValidate]_vars

(***************************************************************************)
(* layout.py: the page and its session history                             *)
(***************************************************************************)
\* the names of the files of an upload of more files than are allowed
NumberedNames ==
    << "1.bin", "2.bin", "3.bin", "4.bin", "5.bin", "6.bin", "7.bin" >>

\* an upload of one file more than MAX_FILES_ALLOWED, every file valid
TooManyFiles ==
    [ k \in 1..(MAX_FILES_ALLOWED + 1) |->
        [ name |-> NumberedNames[k],
          data |-> Data(IF k % 2 = 1 THEN 1 ELSE SmallFileLimit) ] ]

\* the uploads the user puts into the file uploader
Batches ==
    { << >>,
      << EmptyFile >>,
      << SmallFile >>,
      << BigFile, FullFile >>,
      << SmallFile, FullFile >>,
      TooManyFiles }

\* the order in which the user ticks the checkboxes
TickOrder == << "SHA-256", "BLAKE2s", "MD5", "SHA3-256" >>

\* the sets of ticked checkboxes: none, and one more each time
CheckedSets == { { TickOrder[k] : k \in 1..n } : n \in 0..Len(TickOrder) }

Clicks == { "none", "generate", "clear" }

\* the loop of AlgorithmSelector.render over the first n names of the registry
RECURSIVE SelectorLoop(_, _)
SelectorLoop(boxes, n) ==
    IF n = 0 THEN << >>
    ELSE
        LET selected == SelectorLoop(boxes, n - 1)
        IN  IF HASH_ALGORITHMS[n] \in boxes
            THEN DictSet(selected, HASH_ALGORITHMS[n], HASH_ALGORITHMS[n])
            ELSE selected

\* the dict with the checked names put in sorted order
RECURSIVE AlgorithmSelectorRenderSorted(_)
AlgorithmSelectorRenderSorted(boxes) ==
    IF boxes = { } THEN << >>
    ELSE
        LET last == CHOOSE a \in boxes : \A b \in boxes \ { a } : StrLess(b, a)
        IN  Append(AlgorithmSelectorRenderSorted(boxes \ { last }), last)

\* AlgorithmSelector.render: the selected names, in the order of the dict
AlgorithmSelectorRender(boxes) == Keys(SelectorLoop(boxes, Len(HASH_ALGORITHMS)))

\* the chunk loop of calculate_hashes from offset at
RECURSIVE FeedChunks(_, _, _, _)
FeedChunks(objects, data, at, step) ==
    IF at >= Len(data) THEN objects
    ELSE FeedChunks([ k \in 1..Len(objects) |->
                        << objects[k][1], Update(objects[k][2], Slice(data, at, step)) >> ],
                    data, at + step, step)

\* FileHasher().calculate_hashes(file_data, algorithms): the digest map
CalculateHashes(data, algos) ==
    LET objects == [ k \in 1..Len(algos) |-> << algos[k], NewContext(algos[k]) >> ]
        fed     == FeedChunks(objects, data, 0, CHUNK_SIZE)
    IN  [ k \in 1..Len(fed) |-> << fed[k][1], HexDigest(fed[k][2]) >> ]

\* a list where None can stand as well
List(items) == << "list", items >>

\* the upload passed on whole, however many files it has
RenderFileUploadWhole(files) ==
    IF files = << >> THEN << None, << >>, << >> >>
    ELSE
        LET lists == ProcessUploadedFiles(files)
        IN  << List(files), lists[1], lists[2] >>

\* render_file_upload: (uploaded_files, valid_files, invalid_files)
RenderFileUpload(files) ==
    IF files = << >> THEN << None, << >>, << >> >>
    ELSE
        LET first == IF Len(files) > MAX_FILES_ALLOWED
                     THEN SubSeq(files, 1, MAX_FILES_ALLOWED)
                     ELSE files
            lists == ProcessUploadedFiles(first)
        IN  << List(first), lists[1], lists[2] >>

\* the upper limit of the selection left out
CanGenerateNoMaximum(uploaded, valid, num_selected) ==
    /\ uploaded # None
    /\ Len(valid) > 0
    /\ MIN_ALGORITHMS <= num_selected

\* render_main_page: can_generate
CanGenerate(uploaded, valid, num_selected) ==
    /\ uploaded # None
    /\ Len(valid) > 0
    /\ MIN_ALGORITHMS <= num_selected
    /\ num_selected <= MAX_ALGORITHMS

\* the combined digest asked for from three algorithms on
CombinedHashIfMoreThanTwo(algos, digests) ==
    IF Len(algos) > 2 THEN CombinedHash(digests, "SHA-256") ELSE None

\* process_files: combined_hash
CombinedHashIfSeveral(algos, digests) ==
    IF Len(algos) > 1 THEN CombinedHash(digests, "SHA-256") ELSE None

\* HashResultFormatter.create_history_entry, without the formatted size and
\* the timestamp
CreateHistoryEntry(file_name, file_size, digests, combined) ==
    [ file_name |-> file_name, file_size |-> file_size,
      hashes |-> digests, combined_hash |-> combined ]

\* the entry put in front
PrependToHistory(h, entry) == << entry >> \o h

\* st.session_state['hash_history'].append(entry)
AppendToHistory(h, entry) == Append(h, entry)

\* the newest entry kept
ClearHistoryKeepLast(h) == IF h = << >> THEN h ELSE << h[Len(h)] >>

\* st.session_state['hash_history'] = []
ClearHistory(h) == << >>

InitSession ==
    /\ HashIdle
    /\ CombineIdle
    /\ ValidateIdle
    /\ SelectIdle
    /\ max_file_size = SmallFileLimit
    /\ SessionIdle
    /\ SingleIdle

\* the script waits for the user
Waiting == run \in { "idle", "raised" }

\* the script is in the for loop of process_files
InBatch == run \in { "processing", "hashed" }

\* one script run of render_main_page with the widgets as given, up to
\* st.rerun(), the first call of calculate_hashes or the end of the script
RenderMainPage(files, boxes, button) ==
    LET selected        == AlgorithmSelectorRender(boxes)
        num_selected    == Len(selected)
        upload          == RenderFileUpload(files)
        can_generate    == CanGenerate(upload[1], upload[2], num_selected)
        generate_button == button = "generate" /\ can_generate
        clear_button    == button = "clear" /\ Len(history) # 0
    IN  /\ uploader' = files
        /\ checked' = boxes
        /\ clicked' = button
        /\ before' = history
        /\ file_hashes' = << >>
        /\ IF clear_button
           THEN /\ history' = ClearHistory(history)
                /\ run' = "rerun"
                /\ valid_files' = << >>
                /\ selected_algorithms' = << >>
                /\ file_index' = 0
           ELSE IF generate_button /\ upload[2] # << >>
           THEN /\ run' = "processing"
                /\ valid_files' = upload[2]
                /\ selected_algorithms' = selected
                /\ file_index' = 1
                /\ UNCHANGED history
           ELSE /\ run' = "idle"
                /\ valid_files' = << >>
                /\ selected_algorithms' = << >>
                /\ file_index' = 0
                /\ UNCHANGED history
        /\ UNCHANGED << hashVars, combineVars, max_file_size, validateVars, selectVars,
                    singleVars >>

\* the user changes the files of the uploader: the script runs again
Upload(files) ==
    /\ Waiting
    /\ files # uploader
    /\ RenderMainPage(files, checked, "none")

\* the user ticks or unticks checkboxes: the script runs again
Tick(boxes) ==
    /\ Waiting
    /\ boxes # checked
    /\ RenderMainPage(uploader, boxes, "none")

\* the user presses Generate Hashes
ClickGenerate ==
    /\ Waiting
    /\ \/ Len(history) + Len(RenderFileUpload(uploader)[2]) <= MaxHistory
       \/ history = << >>
    /\ RenderMainPage(uploader, checked, "generate")

\* the user presses Clear History
ClickClear ==
    /\ Waiting
    /\ RenderMainPage(uploader, checked, "clear")

\* st.rerun(): the script runs again, no button pressed
Rerun ==
    /\ run = "rerun"
    /\ RenderMainPage(uploader, checked, "none")

\* process_files: calculate_hashes of the file at file_index returns
HashFile ==
    /\ run = "processing"
    /\ file_index <= Len(valid_files)
    /\ file_hashes' = CalculateHashes(valid_files[file_index].data, selected_algorithms)
    /\ run' = "hashed"
    /\ UNCHANGED << history, uploader, checked, clicked, valid_files,
                    selected_algorithms, file_index, before >>
    /\ UNCHANGED << hashVars, combineVars, max_file_size, validateVars, selectVars,
                    singleVars >>

\* process_files: calculate_hashes of the file at file_index raises; nothing
\* catches the exception and the script run ends
HashFileRaises ==
    /\ run = "processing"
    /\ file_index <= Len(valid_files)
    /\ run' = "raised"
    /\ UNCHANGED << history, uploader, checked, clicked, valid_files,
                    selected_algorithms, file_index, file_hashes, before >>
    /\ UNCHANGED << hashVars, combineVars, max_file_size, validateVars, selectVars,
                    singleVars >>

\* the append moved out of the for loop: only the entry of the last file is
\* appended
AppendEntryAfterLoop ==
    /\ run = "hashed"
    /\ LET file_info     == valid_files[file_index]
           combined_hash_ == CombinedHashIfSeveral(selected_algorithms, file_hashes)
           entry         == CreateHistoryEntry(file_info.name, file_info.size,
                                               file_hashes, combined_hash_)
       IN  history' = IF file_index = Len(valid_files)
                      THEN AppendToHistory(history, entry)
                      ELSE history
    /\ file_index' = file_index + 1
    /\ file_hashes' = << >>
    /\ run' = "processing"
    /\ UNCHANGED << uploader, checked, clicked, valid_files,
                    selected_algorithms, before >>
    /\ UNCHANGED << hashVars, combineVars, max_file_size, validateVars, selectVars,
                    singleVars >>

\* process_files: the entry of the file at file_index is appended and the
\* loop goes on to the next file
AppendEntry ==
    /\ run = "hashed"
    /\ LET file_info     == valid_files[file_index]
           combined_hash_ == CombinedHashIfSeveral(selected_algorithms, file_hashes)
           entry         == CreateHistoryEntry(file_info.name, file_info.size,
                                               file_hashes, combined_hash_)
       IN  history' = AppendToHistory(history, entry)
    /\ file_index' = file_index + 1
    /\ file_hashes' = << >>
    /\ run' = "processing"
    /\ UNCHANGED << uploader, checked, clicked, valid_files,
                    selected_algorithms, before >>
    /\ UNCHANGED << hashVars, combineVars, max_file_size, validateVars, selectVars,
                    singleVars >>

\* process_files returns after the last file and render_main_page calls
\* st.rerun()
FinishBatch ==
    /\ run = "processing"
    /\ file_index > Len(valid_files)
    /\ run' = "rerun"
    /\ valid_files' = << >>
    /\ selected_algorithms' = << >>
    /\ file_index' = 0
    /\ UNCHANGED << history, uploader, checked, clicked, file_hashes, before >>
    /\ UNCHANGED << hashVars, combineVars, max_file_size, validateVars, selectVars,
                    singleVars >>

NextSession ==
    \/ \E files \in Batches : Upload(files)
    \/ \E boxes \in CheckedSets : Tick(boxes)
    \/ ClickGenerate
    \/ ClickClear
    \/ Rerun
    \/ HashFile
    \/ HashFileRaises
    \/ AppendEntry
    \/ FinishBatch

SpecSession == InitSession /\ [][NextSession]_vars

(***************************************************************************)
(* The digest map of a selection, from the checkboxes to the text export   *)
(***************************************************************************)
RegistryNames == { HASH_ALGORITHMS[k] : k \in 1..Len(HASH_ALGORITHMS) }

\* HashResultFormatter.to_text: the algorithm names of the lines of an entry,
\* in the order of entry['hashes'].items()
ToTextNames(entry) == Keys(entry.hashes)

InitSelect ==
    /\ HashIdle
    /\ CombineIdle
    /\ ValidateIdle
    /\ SessionIdle
    /\ max_file_size = MAX_FILE_SIZE_BYTES
    /\ SingleIdle
    /\ ticked \in SUBSET RegistryNames
    /\ selection = Unset
    /\ digest_map = Unset
    /\ export_lines = Unset

\* AlgorithmSelector.render returns the selected algorithms
RenderSelector ==
    /\ selection = Unset
    /\ selection' = List(AlgorithmSelectorRender(ticked))
    /\ UNCHANGED << ticked, digest_map, export_lines >>
    /\ UNCHANGED << hashVars, combineVars, max_file_size, validateVars, sessionVars,
                    singleVars >>

\* calculate_hashes of a file with the selected algorithms
HashSelection ==
    /\ selection # Unset
    /\ digest_map = Unset
    /\ digest_map' = List(CalculateHashes(SmallFile.data, selection[2]))
    /\ UNCHANGED << ticked, selection, export_lines >>
    /\ UNCHANGED << hashVars, combineVars, max_file_size, validateVars, sessionVars,
                    singleVars >>

\* the digest map is stored in a history entry and the entry is exported as
\* text
ExportText ==
    /\ digest_map # Unset
    /\ export_lines = Unset
    /\ LET combined == CombinedHashIfSeveral(selection[2], digest_map[2])
           entry    == CreateHistoryEntry(SmallFile.name, Len(SmallFile.data),
                                          digest_map[2], combined)
       IN  export_lines' = List(ToTextNames(entry))
    /\ UNCHANGED << ticked, selection, digest_map >>
    /\ UNCHANGED << hashVars, combineVars, max_file_size, validateVars, sessionVars,
                    singleVars >>

NextSelect ==
    \/ RenderSelector
    \/ HashSelection
    \/ ExportText

SpecSelect == InitSelect /\ [][NextSelect]_vars

(***************************************************************************)
(* hasher.py: calculate_single_hash and FileHasher.verify_hash             *)
(***************************************************************************)
\* a call that returned value
Returned(value) == << "return", value >>

\* a call that raised the exception
Raised(exception) == << "raise", exception >>

UpperChars ==
    << "0", "1", "2", "3", "4", "5", "6", "7",
       "8", "9", "A", "B", "C", "D", "E", "F" >>

\* str.upper() of a hex string
Upper(s) ==
    [ k \in 1..Len(s) |->
        IF \E h \in 1..16 : HexChars[h] = s[k]
        THEN UpperChars[CHOOSE h \in 1..16 : HexChars[h] = s[k]]
        ELSE s[k] ]

\* str.lower() of a hex string
Lower(s) ==
    [ k \in 1..Len(s) |->
        IF \E h \in 1..16 : UpperChars[h] = s[k]
        THEN HexChars[CHOOSE h \in 1..16 : UpperChars[h] = s[k]]
        ELSE s[k] ]

\* an unknown name hashed with SHA-256 instead
CalculateSingleHashFallback(data, name) ==
    LET algo == IF ~InRegistry(name) THEN "SHA-256" ELSE name
    IN  Returned(HexDigest(Update(NewContext(algo), data)))

\* calculate_single_hash(file_data, algorithm_name)
CalculateSingleHash(data, name) ==
    IF ~InRegistry(name) THEN Raised("ValueError")
    ELSE Returned(HexDigest(Update(NewContext(name), data)))

\* FileHasher.verify_hash(file_data, algorithm_name, expected_hash)
VerifyHash(data, name, expected) ==
    IF ~InRegistry(name) THEN Raised("ValueError")
    ELSE
        LET calculated_hash == HexDigest(Update(NewContext(name), data))
        IN  Returned(Lower(calculated_hash) = Lower(expected))

\* the names asked for: the registry and names that are not in it
AlgorithmNames == RegistryNames \cup UnregisteredNames

\* the expected digests: the right one in lower and in upper case, and others
ExpectedHashes(data, name) ==
    LET algo  == IF InRegistry(name) THEN name ELSE "SHA-256"
        right == HexDigest(Update(NewContext(algo), data))
    IN  { right, Upper(right), ToHex(0), ToHex(43981) }

InitSingle ==
    /\ HashIdle
    /\ CombineIdle
    /\ ValidateIdle
    /\ SessionIdle
    /\ SelectIdle
    /\ max_file_size = MAX_FILE_SIZE_BYTES
    /\ algorithm_name \in AlgorithmNames
    /\ single_file_data \in Payloads
    /\ expected_hash \in ExpectedHashes(single_file_data, algorithm_name)
    /\ single_result = Unset
    /\ verify_result = Unset

CallCalculateSingleHash ==
    /\ single_result = Unset
    /\ single_result' = CalculateSingleHash(single_file_data, algorithm_name)
    /\ UNCHANGED << algorithm_name, single_file_data, expected_hash, verify_result >>
    /\ UNCHANGED << hashVars, combineVars, max_file_size, validateVars, sessionVars,
                    selectVars >>

CallVerifyHash ==
    /\ verify_result = Unset
    /\ verify_result' = VerifyHash(single_file_data, algorithm_name, expected_hash)
    /\ UNCHANGED << algorithm_name, single_file_data, expected_hash, single_result >>
    /\ UNCHANGED << hashVars, combineVars, max_file_size, validateVars, sessionVars,
                    selectVars >>

NextSingle ==
    \/ CallCalculateSingleHash
    \/ CallVerifyHash

SpecSingle == InitSingle /\ [][NextSingle]_vars

TypeOK ==
    /\ pc \in { "idle", "for", "update", "finalize", "done" }
    /\ cpc \in { "idle", "done" }

(***************************************************************************)
(* Properties of calculate_hashes, checked under SpecHash.                 *)
(***************************************************************************)
\* the first n bytes of the payload
Prefix(n) == SubSeq(file_data, 1, Min(n, Len(file_data)))

\* the bytes the k-th digest context has consumed
Consumed(k) == hash_objects[k][2].msg

\* C1: during a call there is one digest context per requested algorithm;
\* at the head of the chunk loop every context has consumed the same prefix of
\* the payload, the one before the next chunk; inside the inner loop the
\* contexts before the loop's position have consumed the prefix with the current
\* chunk and the others the prefix without it; once the loop is over every
\* context has consumed exactly the payload.
C1_SameByteStream ==
    pc # "idle" =>
        /\ Len(hash_objects) = Len(algorithms)
        /\ \A k \in 1..Len(hash_objects) :
              /\ hash_objects[k][1] = algorithms[k]
              /\ pc = "for" => Consumed(k) = Prefix(i)
              /\ pc = "update" =>
                    Consumed(k) = IF k < j THEN Prefix(i + chunk_size) ELSE Prefix(i)
              /\ pc \in { "finalize", "done" } => Consumed(k) = file_data

\* a call with two algorithms has consumed a payload of a whole and a partial chunk
C1_Witness ==
    /\ pc = "done"
    /\ Len(hash_objects) = 2
    /\ chunk_size = 2
    /\ Len(file_data) = 3
    /\ \A k \in 1..2 : Consumed(k) = file_data

\* C2: a completed call returns the same digests as the first call of the
\* behaviour when that call had the same payload (the algorithms are the same
\* throughout) and was made by a hasher with another chunk size.
C2_ChunkingTransparent ==
    ( /\ pc = "done"
      /\ prev.called
      /\ prev.file_data = file_data
      /\ prev.chunk_size # chunk_size )
    => results = prev.results

\* a payload hashed byte by byte and then in one chunk
C2_Witness ==
    /\ pc = "done"
    /\ prev.called
    /\ prev.file_data = file_data
    /\ prev.chunk_size = 1
    /\ chunk_size >= Len(file_data)
    /\ Len(file_data) >= 2
    /\ Len(results) >= 1
    /\ results = prev.results

\* C3: a completed call returns the same digest map as the first call of the
\* same FileHasher when that call had the same payload (the algorithms are the
\* same throughout), whether or not the hasher hashed other payloads in between.
C3_Deterministic ==
    ( /\ pc = "done"
      /\ prev.called
      /\ prev.gap # "rebuilt"
      /\ prev.file_data = file_data )
    => results = prev.results

\* the same hasher hashed a payload, then another one, then the first again
C3_Witness ==
    /\ pc = "done"
    /\ prev.called
    /\ prev.gap = "other"
    /\ prev.file_data = file_data
    /\ Len(file_data) >= 2
    /\ Len(results) >= 1
    /\ results = prev.results

\* C4: the keys of the returned digest map are the requested algorithms, each
\* one once.
C4_KeysAreRequested ==
    pc = "done" =>
        /\ { results[k][1] : k \in 1..Len(results) } = { algorithms[k] : k \in 1..Len(algorithms) }
        /\ \A a, b \in 1..Len(results) : a # b => results[a][1] # results[b][1]

\* two algorithms were requested for the empty payload
C4_Witness ==
    /\ pc = "done"
    /\ file_data = << >>
    /\ Len(algorithms) = 2
    /\ Len(results) = 2

\* C5: every invocation of the progress callback reports the payload length
\* as total and a processed value that is at most total and at least the
\* value of the invocation before it.
C5_ProgressMonotone ==
    \A k \in 1..Len(progress_calls) :
        /\ progress_calls[k][2] = Len(file_data)
        /\ progress_calls[k][1] <= progress_calls[k][2]
        /\ k > 1 => progress_calls[k - 1][1] <= progress_calls[k][1]

\* the callback was invoked for a whole chunk and then for a partial one
C5_Witness ==
    /\ pc = "done"
    /\ has_callback
    /\ chunk_size = 2
    /\ progress_calls = << << 2, 3 >>, << 3, 3 >> >>

\* C6: a call on the empty payload completes with, for every requested
\* algorithm, the digest of a context that was fed nothing.
C6_EmptyPayload ==
    ( pc = "done" /\ file_data = << >> ) =>
        results = [ k \in 1..Len(algorithms) |->
                      << algorithms[k], HexDigest(NewContext(algorithms[k])) >> ]

\* the empty payload was hashed with two algorithms
C6_Witness ==
    /\ pc = "done"
    /\ file_data = << >>
    /\ Len(algorithms) = 2
    /\ \A k \in 1..2 : results[k][2] = HexDigest(NewContext(algorithms[k]))

(***************************************************************************)
(* Properties of calculate_combined_hash, checked under SpecCombine.       *)
(***************************************************************************)
\* the entries of a dict, whatever their insertion order
Entries(d) == { d[k] : k \in 1..Len(d) }

IsHexString(s) ==
    /\ Len(s) >= 1
    /\ \A k \in 1..Len(s) : \E h \in 1..16 : s[k] = HexChars[h]

\* C7: the second call returns the same value as the first one when the two
\* digest maps have the same entries and the combiner algorithm is the same,
\* whatever the insertion orders.
C7_OrderInvariant ==
    ( /\ cpc = "done"
      /\ prev_combined.called
      /\ Entries(prev_combined.individual_hashes) = Entries(individual_hashes)
      /\ prev_combined.algorithm = algorithm )
    => combined_hash = prev_combined.combined_hash

\* a map of three entries was combined in two different insertion orders
C7_Witness ==
    /\ cpc = "done"
    /\ prev_combined.called
    /\ Len(individual_hashes) = 3
    /\ Entries(prev_combined.individual_hashes) = Entries(individual_hashes)
    /\ prev_combined.individual_hashes # individual_hashes
    /\ prev_combined.algorithm = algorithm
    /\ IsHexString(combined_hash)
    /\ combined_hash = prev_combined.combined_hash

\* C8: a call returns None for a digest map of at most one entry and a hex
\* string for a digest map of two or more entries.
C8_AbsentOrHex ==
    cpc = "done" =>
        IF Len(individual_hashes) <= 1
        THEN combined_hash = None
        ELSE IsHexString(combined_hash)

\* a two-entry map gave a hex string
C8_Witness ==
    /\ cpc = "done"
    /\ Len(individual_hashes) = 2
    /\ IsHexString(combined_hash)

\* the lists of the keys of d in ascending order of name
AscendingKeys(d) ==
    { s \in Orders(d) : \A k \in 1..(Len(s) - 1) : StrLess(s[k], s[k + 1]) }

\* the digest under algo of the UTF-8 bytes of the digests of d taken in the
\* order of the key list s and concatenated
DigestOfConcatenation(d, s, algo) ==
    HexDigest(Update(NewContext(algo),
                     Encode(Join([ k \in 1..Len(s) |-> Lookup(d, s[k]) ]))))

\* C9: for a digest map of two or more entries and a registered combiner
\* algorithm, the call returns the combiner's digest of the digests
\* concatenated in ascending order of algorithm name; for the keys MD5 and
\* SHA-256 and the combiner SHA-256 that is digest[MD5] followed by
\* digest[SHA-256].
C9_SortedConcatenation ==
    ( cpc = "done" /\ Len(individual_hashes) >= 2 /\ InRegistry(algorithm) ) =>
        /\ \E s \in AscendingKeys(individual_hashes) :
              combined_hash = DigestOfConcatenation(individual_hashes, s, algorithm)
        /\ ( Entries(Keys(individual_hashes)) = { "MD5", "SHA-256" } /\ algorithm = "SHA-256" ) =>
              combined_hash =
                  HexDigest(Update(NewContext("SHA-256"),
                                   Encode(Lookup(individual_hashes, "MD5")
                                          \o Lookup(individual_hashes, "SHA-256"))))

\* the map inserted as SHA-256 then MD5, with different digests, was combined
C9_Witness ==
    /\ cpc = "done"
    /\ algorithm = "SHA-256"
    /\ Keys(individual_hashes) = << "SHA-256", "MD5" >>
    /\ individual_hashes[1][2] # individual_hashes[2][2]
    /\ IsHexString(combined_hash)

\* C10: a call with an unregistered combiner algorithm does not raise, and of
\* two calls on the same digest map, one with an unregistered combiner
\* algorithm and one with SHA-256, the second returns what the first returned.
C10_FallbackToSha256 ==
    /\ ( cpc = "done" /\ ~InRegistry(algorithm) ) => combined_hash # KeyError
    /\ ( /\ cpc = "done"
         /\ prev_combined.called
         /\ prev_combined.individual_hashes = individual_hashes
         /\ \/ ~InRegistry(algorithm) /\ prev_combined.algorithm = "SHA-256"
            \/ algorithm = "SHA-256" /\ ~InRegistry(prev_combined.algorithm) )
       => combined_hash = prev_combined.combined_hash

\* a two-entry map was combined with SHA-256 and then with an unregistered name
C10_Witness ==
    /\ cpc = "done"
    /\ ~InRegistry(algorithm)
    /\ prev_combined.called
    /\ prev_combined.algorithm = "SHA-256"
    /\ prev_combined.individual_hashes = individual_hashes
    /\ Len(individual_hashes) >= 2
    /\ IsHexString(combined_hash)
    /\ combined_hash = prev_combined.combined_hash


(***************************************************************************)
(* Validation                                                              *)
(***************************************************************************)
\* C12: validate_file_size accepts a size equal to the configured maximum,
\* rejects the maximum plus one as too large and rejects size 0 as empty; a
\* zero-byte file is rejected whatever the configured maximum is.
C12_SizeBoundaries ==
    size_result # Unset =>
        /\ (size = 0 => size_result[1] = FALSE)
        /\ (max_file_size >= 1 /\ size = max_file_size
                => size_result = << TRUE, "" >>)
        /\ (max_file_size >= 0 /\ size = max_file_size + 1
                => size_result = << FALSE, "File size exceeds limit" >>)
        /\ (max_file_size >= 0 /\ size = 0
                => size_result = << FALSE, "File is empty" >>)

\* a file of exactly MAX_FILE_SIZE_BYTES bytes was validated and accepted
C12_Witness ==
    /\ max_file_size = MAX_FILE_SIZE_BYTES
    /\ size = max_file_size
    /\ size_result = << TRUE, "" >>

\* C13: validate_file_count accepts the minimum count and the maximum count
\* and rejects the minimum minus one and the maximum plus one.
C13_CountBoundaries ==
    count_result # Unset =>
        /\ (count = MIN_FILES_REQUIRED => count_result[1] = TRUE)
        /\ (count = MAX_FILES_ALLOWED => count_result[1] = TRUE)
        /\ (count = MIN_FILES_REQUIRED - 1 => count_result[1] = FALSE)
        /\ (count = MAX_FILES_ALLOWED + 1 => count_result[1] = FALSE)

\* a count of exactly MAX_FILES_ALLOWED was validated and accepted
C13_Witness ==
    /\ count = MAX_FILES_ALLOWED
    /\ count_result = << TRUE, "" >>

\* the uploaded file a FileInfo was made from
Submitted(infos) ==
    [ k \in DOMAIN infos |-> [ name |-> infos[k].name, data |-> infos[k].data ] ]

\* the size of the file alone is within the limits
OwnSizeOk(file) ==
    /\ Len(file.data) > 0
    /\ Len(file.data) <= max_file_size

OwnSizeBad(file) == ~OwnSizeOk(file)

\* C16: process_uploaded_files classifies each file by its own size only:
\* the valid list is the submitted files whose own size is within the
\* limits, the invalid list is the others, each in submission order, so
\* every submitted file is in exactly one of the two lists.
C16_Partition ==
    processed # Unset =>
        /\ Submitted(processed[1]) = SelectSeq(uploaded_files, OwnSizeOk)
        /\ Submitted(processed[2]) = SelectSeq(uploaded_files, OwnSizeBad)
        /\ Len(processed[1]) + Len(processed[2]) = Len(uploaded_files)
        /\ \A k \in DOMAIN processed[1] : processed[1][k].is_valid
        /\ \A k \in DOMAIN processed[2] : ~processed[2][k].is_valid

\* an upload whose first file is invalid and whose second file is valid was
\* processed
C16_Witness ==
    /\ processed # Unset
    /\ Len(uploaded_files) >= 2
    /\ OwnSizeBad(uploaded_files[1])
    /\ OwnSizeOk(uploaded_files[2])
    /\ Len(processed[1]) >= 1
    /\ Len(processed[2]) >= 1

(***************************************************************************)
(* History                                                                 *)
(***************************************************************************)
\* C11: the combined digest of every history entry is present exactly when
\* the digest map of the entry has more than one key.
C11_CombinedIffSeveral ==
    \A k \in 1..Len(history) :
        (history[k].combined_hash # None) <=> (Len(history[k].hashes) > 1)

\* the history holds an entry of one digest without a combined digest and an
\* entry of two digests with one
C11_Witness ==
    /\ \E k \in 1..Len(history) :
          Len(history[k].hashes) = 1 /\ history[k].combined_hash = None
    /\ \E k \in 1..Len(history) :
          Len(history[k].hashes) = 2 /\ IsHexString(history[k].combined_hash)

\* C14: hashing runs only with MIN_ALGORITHMS to MAX_ALGORITHMS selected
\* algorithms, so the digest map of every history entry has 1 to 3 keys.
C14_SelectionLimit ==
    /\ InBatch =>
          /\ Len(selected_algorithms) >= MIN_ALGORITHMS
          /\ Len(selected_algorithms) <= MAX_ALGORITHMS
    /\ \A k \in 1..Len(history) :
          /\ Len(history[k].hashes) >= 1
          /\ Len(history[k].hashes) <= 3

\* Generate was pressed with valid files and one algorithm too many and the
\* script ended without hashing, after a batch with the most algorithms
C14_Witness ==
    /\ clicked = "generate"
    /\ run = "idle"
    /\ Cardinality(checked) = MAX_ALGORITHMS + 1
    /\ RenderFileUpload(uploader)[2] # << >>
    /\ history = before
    /\ \E k \in 1..Len(history) : Len(history[k].hashes) = MAX_ALGORITHMS

\* the uploader holds one file of no bytes
OnlyEmptyFile == Len(uploader) = 1 /\ Len(uploader[1].data) = 0

\* C15: only validated files reach the engine: the file size of every
\* history entry is above 0 and at most the maximum, and a script run with
\* Generate pressed on one file of no bytes ends without hashing and leaves
\* the history as it was.
C15_OnlyValidFiles ==
    /\ \A k \in 1..Len(history) :
          /\ history[k].file_size > 0
          /\ history[k].file_size <= max_file_size
    /\ \A k \in 1..Len(valid_files) :
          /\ valid_files[k].size > 0
          /\ valid_files[k].size <= max_file_size
    /\ (OnlyEmptyFile /\ clicked = "generate") =>
          /\ run = "idle"
          /\ history = before

\* Generate was pressed on one file of no bytes, with algorithms selected
\* and a history that has entries
C15_Witness ==
    /\ OnlyEmptyFile
    /\ clicked = "generate"
    /\ Cardinality(checked) >= MIN_ALGORITHMS
    /\ Cardinality(checked) <= MAX_ALGORITHMS
    /\ Len(history) >= 1
    /\ \E k \in 1..Len(history) : history[k].file_size = max_file_size

\* sequence s is the start of sequence t
IsPrefix(s, t) == Len(s) <= Len(t) /\ SubSeq(t, 1, Len(s)) = s

\* C17: the history is append-only between clears: every step either keeps
\* the earlier history as a prefix of the later one, or is the clear, which
\* removes all entries together.
C17_AppendOnly ==
    [][ \/ IsPrefix(history, history')
        \/ /\ clicked' = "clear"
           /\ Waiting
           /\ history' = << >> ]_vars

\* an entry was appended behind the entries of an earlier batch
C17_Witness ==
    /\ run = "processing"
    /\ Len(before) >= 1
    /\ Len(history) > Len(before)
    /\ IsPrefix(before, history)

\* C18: the clear leaves a history of length 0, whatever number of entries
\* it had, and the history stays empty until the next append.
C18_ClearEmpties ==
    [][ /\ (Waiting /\ clicked' = "clear") => Len(history') = 0
        /\ (history = << >> /\ history' # << >>) =>
              /\ run = "hashed"
              /\ Len(history') = 1 ]_vars

\* a history of three entries was cleared
C18_Witness ==
    /\ clicked = "clear"
    /\ run = "rerun"
    /\ Len(before) = 3
    /\ history = << >>

\* the names of the files of a list
Names(list) == [ k \in 1..Len(list) |-> list[k].name ]

\* the file names of the entries of a list
EntryNames(list) == [ k \in 1..Len(list) |-> list[k].file_name ]

\* the list without its element at position n
Without(list, n) == SubSeq(list, 1, n - 1) \o SubSeq(list, n + 1, Len(list))

\* C19: when hashing one file of a batch fails, only that file is affected:
\* once the script run has ended, the history is the history from before
\* the batch followed by one entry for every other valid file of the batch,
\* and by none for the file that failed.
C19_FailureIsolated ==
    run = "raised" =>
        /\ IsPrefix(before, history)
        /\ EntryNames(SubSeq(history, Len(before) + 1, Len(history)))
             = Without(Names(valid_files), file_index)

\* ascending order of the code points
Ascending(names) ==
    \A k \in 1..(Len(names) - 1) : StrLess(names[k], names[k + 1])

IsTicked(name) == name \in ticked

IsBlake(name) == name \in { "BLAKE2b", "BLAKE2s" }

CeilDiv(n, c) == (n + c - 1) \div c

\* C24: for a payload of n bytes and a chunk size c >= 1 a call of
\* calculate_hashes invokes the progress callback ceil(n / c) times, the
\* k-th time with processed = min(k * c, n) and total = n: never for the
\* empty payload, and the last time with processed = total.  The count is
\* read when the loop of the call has ended, before the hasher can be
\* replaced by one of another chunk size.
C24_CallbackCount ==
    LET n == Len(file_data)
        c == chunk_size
    IN  /\ has_callback /\ pc \in { "for", "update", "finalize" } =>
              Len(progress_calls) <= CeilDiv(n, c)
        /\ has_callback /\ pc = "finalize" =>
              /\ progress_calls = [ k \in 1..CeilDiv(n, c) |-> << Min(k * c, n), n >> ]
              /\ n = 0 => progress_calls = << >>
              /\ n > 0 => progress_calls[Len(progress_calls)][1] = n
        /\ \A k \in 1..Len(progress_calls) : progress_calls[k][2] > 0

\* a payload of three bytes was hashed in chunks of one byte and the
\* callback was invoked three times
C24_Witness ==
    /\ pc = "finalize"
    /\ has_callback
    /\ chunk_size = 1
    /\ Len(file_data) = 3
    /\ Len(progress_calls) = 3
    /\ progress_calls[3] = << 3, 3 >>

(***************************************************************************)
(* Unknown algorithm names                                                 *)
(***************************************************************************)
\* C21: calculate_single_hash and verify_hash asked for a name that is not
\* in the registry fail with the unknown-algorithm error (ValueError) and
\* produce no digest; for each of the ten registered names
\* calculate_single_hash returns a hex digest and verify_hash returns a
\* truth value, which is true for the digest calculate_single_hash returns.
C21_UnknownAlgorithm ==
    /\ Cardinality(RegistryNames) = 10
    /\ single_result # Unset =>
          IF algorithm_name \in RegistryNames
          THEN /\ single_result[1] = "return"
               /\ IsHexString(single_result[2])
          ELSE /\ single_result[1] = "raise"
               /\ single_result[2] = "ValueError"
    /\ verify_result # Unset =>
          IF algorithm_name \in RegistryNames
          THEN /\ verify_result[1] = "return"
               /\ verify_result[2] \in BOOLEAN
               /\ (single_result # Unset /\ expected_hash = single_result[2])
                     => verify_result[2] = TRUE
          ELSE /\ verify_result[1] = "raise"
               /\ verify_result[2] = "ValueError"

\* both functions were asked for CRC32, which is not registered, and raised
C21_Witness ==
    /\ algorithm_name = "CRC32"
    /\ single_file_data # << >>
    /\ single_result = Raised("ValueError")
    /\ verify_result = Raised("ValueError")

(***************************************************************************)
(* Batches                                                                 *)
(***************************************************************************)
\* the first MAX_FILES_ALLOWED files of the uploader
FirstFiles == SubSeq(uploader, 1, Min(Len(uploader), MAX_FILES_ALLOWED))

\* the entries the history got since the script run started
NewEntries == SubSeq(history, Len(before) + 1, Len(history))

\* Generate was pressed with 1 to 3 algorithms selected
GeneratePressed ==
    /\ clicked = "generate"
    /\ Cardinality(checked) >= MIN_ALGORITHMS
    /\ Cardinality(checked) <= MAX_ALGORITHMS

\* C23: an upload of more than MAX_FILES_ALLOWED (5) files is not rejected:
\* Generate starts a batch of the valid files among the first 5 uploaded
\* files only, the files after the fifth get no entry, and one generate
\* operation appends at most 5 entries to the history.
C23_FirstFiveOnly ==
    /\ Len(valid_files) <= MAX_FILES_ALLOWED
    /\ Len(history) - Len(before) <= 5
    /\ (GeneratePressed /\ Len(uploader) > MAX_FILES_ALLOWED) =>
          /\ SelectSeq(FirstFiles, OwnSizeOk) # << >> => run # "idle"
          /\ InBatch => Submitted(valid_files) = SelectSeq(FirstFiles, OwnSizeOk)
          /\ run = "rerun" =>
                EntryNames(NewEntries) = Names(SelectSeq(FirstFiles, OwnSizeOk))

\* a batch of six valid files was generated and the history got five entries
C23_Witness ==
    /\ GeneratePressed
    /\ Len(uploader) = MAX_FILES_ALLOWED + 1
    /\ OwnSizeOk(uploader[MAX_FILES_ALLOWED + 1])
    /\ run = "rerun"
    /\ Len(NewEntries) = MAX_FILES_ALLOWED

\* C22: within one generate operation the files are processed one at a time
\* to completion: while the batch runs, the history is the history from
\* before followed by one entry for each file before the current one, in
\* the order of the valid files and with the digests of that file, so the
\* entry of a file is in the history before the hashing of the next file
\* begins and is not before its own hashing has finished; a completed batch
\* has appended exactly one entry per valid file, in their order.
C22_OneAtATime ==
    /\ InBatch =>
          /\ IsPrefix(before, history)
          /\ Len(NewEntries) = file_index - 1
          /\ EntryNames(NewEntries) = Names(SubSeq(valid_files, 1, file_index - 1))
          /\ \A k \in 1..Len(NewEntries) :
                NewEntries[k].hashes
                    = CalculateHashes(valid_files[k].data, selected_algorithms)
    /\ (run = "rerun" /\ clicked = "generate") =>
          /\ IsPrefix(before, history)
          /\ EntryNames(NewEntries) = Names(SelectSeq(FirstFiles, OwnSizeOk))

\* the second file of a batch has been hashed: the entry of the first file
\* is in the history and the entry of the second is not yet
C22_Witness ==
    /\ run = "hashed"
    /\ file_index = 2
    /\ Len(NewEntries) = 1
    /\ NewEntries[1].file_name = valid_files[1].name
    /\ valid_files[1].name # valid_files[2].name
    /\ Len(before) >= 1
====
